---- MODULE Spec2Model ----
(***************************************************************************)
(* Sequencium: a two-player territory game on a GRID_LENGTH x GRID_LENGTH  *)
(* board (src/main.rs).  One step of the model is one frame of the Bevy    *)
(* schedule: the pending NextState is applied, the one system registered   *)
(* for the current TurnState runs, and its Commands are flushed.           *)
(***************************************************************************)
EXTENDS Integers, Sequences, FiniteSets

\* ---------------------------------------------------------------- constants
GRID_LENGTH == 6
NUM_PLAYERS == 2

\* ------------------------------------------------------------------- bounds
\* Number of opening moves in which the cursor may confirm any cell.
MaxOpening == 1
\* Number of unowned cells below which the cursor may again confirm any cell.
MaxFree == 3
\* Number of game-over frames that are followed.
MaxAnnouncements == 2

\* ------------------------------------------------------------ basic values
None == -1                      \* Option::None / Err of a conversion
Placeholder == 0                \* Entity::PLACEHOLDER (no OwnedBy component)
NoCursor == <<-1, -1>>          \* get_cursor_pos returned None
OffGrid == <<-2, -2>>           \* cursor inside the window, over no block
NoBlock == <<-3, -3>>           \* Option<Entity>::None for a block

Cells == (0 .. GRID_LENGTH - 1) \X (0 .. GRID_LENGTH - 1)

\* PlayerList.list after setup_players: list[0] is entity 1, list[1] entity 2
player_list == [k \in 1 .. NUM_PLAYERS |-> k]
Players == {player_list[k] : k \in 1 .. NUM_PLAYERS}

Max(a, b) == IF a >= b THEN a ELSE b

SetMax(S) == CHOOSE v \in S : \A w \in S : w <= v

Contains(seq, e) == \E k \in 1 .. Len(seq) : seq[k] = e

\* u32::to_string : decimal digits, most significant first
RECURSIVE to_string(_)
to_string(n) ==
    IF n < 10 THEN <<n>> ELSE to_string(n \div 10) \o <<n % 10>>

\* u32::from_str : None (Err) on the empty string
RECURSIVE ParseDigits(_, _)
ParseDigits(s, acc) ==
    IF s = <<>> THEN acc ELSE ParseDigits(Tail(s), acc * 10 + Head(s))

\* faulty variant: only the last digit is read
from_str_last_digit(s) == IF s = <<>> THEN None ELSE s[Len(s)]

from_str(s) == IF s = <<>> THEN None ELSE ParseDigits(s, 0)

\* ------------------------------------------------------------- setup_board
\* faulty variant: the offsets range over 0..=1 only
IProductNonNegative ==
    [k \in 1 .. 4 |-> <<(k - 1) \div 2, (k - 1) % 2>>]

\* iproduct!(-1..=1, -1..=1) : dx is the outer loop, dy the inner one
IProduct ==
    [k \in 1 .. 9 |-> <<((k - 1) \div 3) - 1, ((k - 1) % 3) - 1>>]

\* usize::try_from(isize) : Err for a negative value
TryFromUsize(v) == IF v < 0 THEN None ELSE v

\* faulty variant: the block itself is not excluded
NeighborInGridWithSelf(x, y, n) ==
    /\ n[1] # None
    /\ n[2] # None
    /\ n[1] < GRID_LENGTH
    /\ n[2] < GRID_LENGTH

\* the filter_map closure: both conversions Ok, inside the grid, not (x, y)
NeighborInGrid(x, y, n) ==
    /\ n[1] # None
    /\ n[2] # None
    /\ n[1] < GRID_LENGTH
    /\ n[2] < GRID_LENGTH
    /\ (n[1] # x \/ n[2] # y)

NeighborCoords(x, y) ==
    LET mapped == [k \in 1 .. Len(IProduct) |->
                     <<TryFromUsize(x + IProduct[k][1]),
                       TryFromUsize(y + IProduct[k][2])>>]
        Keep(n) == NeighborInGrid(x, y, n)
    IN  SelectSeq(mapped, Keep)

\* the map built by setup_board: a block gets a key only when its first
\* neighbour is pushed
BuildAdjList ==
    [c \in {d \in Cells : NeighborCoords(d[1], d[2]) # <<>>} |->
        NeighborCoords(c[1], c[2])]

\* -------------------------------------------------- get_init_block_data
\* faulty variant: the second half of the diagonal is not mirrored
get_init_block_data_unmirrored(i, j) ==
    IF i = j
    THEN IF i < GRID_LENGTH \div 2
         THEN <<i + 1, player_list[1]>>
         ELSE <<i + 1, player_list[2]>>
    ELSE <<None, Placeholder>>

get_init_block_data(i, j) ==
    IF i = j
    THEN IF i < GRID_LENGTH \div 2
         THEN <<i + 1, player_list[1]>>
         ELSE <<GRID_LENGTH - i, player_list[2]>>
    ELSE <<None, Placeholder>>

InitScore == GRID_LENGTH \div 2

\* faulty variant: the marker is put on the first entry of the list
InitCurrentPlayerFirst == player_list[1]

\* the player setup_players marks as CurrentPlayer
InitCurrentPlayer == player_list[2]

\* colour of the sprite spawned for a block by setup_board
InitColor(owner) ==
    IF owner = player_list[1] THEN "RED"
    ELSE IF owner = player_list[2] THEN "BLUE"
    ELSE "WHITE"

CommittedColor(p) == IF p = player_list[1] THEN "RED" ELSE "BLUE"
SelectedColor(p) == IF p = player_list[1] THEN "SALMON" ELSE "TURQUOISE"

\* -------------------------------------------------------------------- state
VARIABLES
    adj_list,       \* Grid.adj_list: block -> Vec of its neighbours
    gridValue,      \* GridValue of every block: None or a number
    ownedBy,        \* OwnedBy of every block: Placeholder when absent
    score,          \* Score of every player
    currentPlayer,  \* set of players carrying the CurrentPlayer marker
    selected,       \* set of blocks carrying the Selected marker
    text,           \* sections[0].value of the Text child of every block
    sprite,         \* colour of the Sprite child of every block
    turnState,      \* State<TurnState>
    announcements,  \* game-over texts spawned so far: <<player number, score>>
    panicked        \* a system panicked (unwrap / single / assert failed)

vars == <<adj_list, gridValue, ownedBy, score, currentPlayer, selected, text, sprite,
          turnState, announcements, panicked>>

UnownedBlocks(ob) == {c \in Cells : ob[c] = Placeholder}
OwnedBlocks(ob) == {c \in Cells : ob[c] # Placeholder}

Init ==
    /\ adj_list = BuildAdjList
    /\ gridValue = [c \in Cells |-> get_init_block_data(c[1], c[2])[1]]
    /\ ownedBy = [c \in Cells |-> get_init_block_data(c[1], c[2])[2]]
    /\ score = [p \in Players |-> InitScore]
    /\ currentPlayer = {InitCurrentPlayer}
    /\ selected = {}
    /\ text = [c \in Cells |->
                 LET v == get_init_block_data(c[1], c[2])[1]
                 IN  IF v = None THEN <<>> ELSE to_string(v)]
    /\ sprite = [c \in Cells |->
                   InitColor(get_init_block_data(c[1], c[2])[2])]
    /\ turnState = "Unselected"
    /\ announcements = <<>>
    /\ panicked = FALSE

\* -------------------------------------------------------- largest_neighbor
\* faulty variant: the owner of the neighbour is not compared
largest_neighbor_any_owner(collided_entity, gv, ob, current_player) ==
    LET neighbor_list == adj_list[collided_entity]
        vals == {gv[e] : e \in {d \in OwnedBlocks(ob) :
                                  /\ Contains(neighbor_list, d)
                                  /\ gv[d] # None}}
    IN  IF vals = {} THEN None ELSE SetMax(vals)

\* faulty variant: the smallest value is kept
largest_neighbor_smallest(collided_entity, gv, ob, current_player) ==
    LET neighbor_list == adj_list[collided_entity]
        vals == {gv[e] : e \in {d \in OwnedBlocks(ob) :
                                  /\ Contains(neighbor_list, d)
                                  /\ ob[d] = current_player
                                  /\ gv[d] # None}}
    IN  IF vals = {} THEN None ELSE CHOOSE v \in vals : \A w \in vals : v <= w

largest_neighbor(collided_entity, gv, ob, current_player) ==
    LET neighbor_list == adj_list[collided_entity]
        vals == {gv[e] : e \in {d \in OwnedBlocks(ob) :
                                  /\ Contains(neighbor_list, d)
                                  /\ ob[d] = current_player
                                  /\ gv[d] # None}}
    IN  IF vals = {} THEN None ELSE SetMax(vals)

\* --------------------------------------------------- next_player_has_moves
\* faulty variant: blocks of either player are scanned
next_player_has_moves_any_owner(next_player, ob) ==
    \E e \in OwnedBlocks(ob) :
        /\ e \in DOMAIN adj_list
        /\ \E k \in 1 .. Len(adj_list[e]) : adj_list[e][k] \in UnownedBlocks(ob)

\* faulty variant: the scan is skipped and the turn always handed over
next_player_has_moves_always(next_player, ob) == TRUE

\* true when the scan meets a block of next_player with an unowned neighbour
next_player_has_moves(next_player, ob) ==
    \E e \in OwnedBlocks(ob) :
        /\ ob[e] = next_player
        /\ e \in DOMAIN adj_list
        /\ \E k \in 1 .. Len(adj_list[e]) : adj_list[e][k] \in UnownedBlocks(ob)

\* adj_list.get(&entity).unwrap() fails when the scan meets a block of
\* next_player that has no entry
MissingAdjacency(next_player, ob) ==
    \E e \in OwnedBlocks(ob) : ob[e] = next_player /\ e \notin DOMAIN adj_list

Panic ==
    /\ panicked' = TRUE
    /\ UNCHANGED <<adj_list, gridValue, ownedBy, score, currentPlayer, selected, text,
                   sprite, turnState, announcements>>

\* query.single() : the only element, None when there is not exactly one
Single(S, none) == IF Cardinality(S) = 1 THEN CHOOSE e \in S : TRUE ELSE none

\* ------------------------------------------------------ bounded mouse input
NumCommitted(ob) == Cardinality(OwnedBlocks(ob)) - GRID_LENGTH

Rank(c) == c[1] * GRID_LENGTH + c[2]

Eligible(gv, ob, p) ==
    {c \in UnownedBlocks(ob) : largest_neighbor(c, gv, ob, p) # None}

\* In the middle game the mouse only visits the first eligible block in
\* row-major order; in the opening and the endgame it visits any block.
CursorPositions ==
    IF \/ NumCommitted(ownedBy) < MaxOpening
       \/ Cardinality(UnownedBlocks(ownedBy)) <= MaxFree
    THEN {NoCursor, OffGrid} \cup Cells
    ELSE LET eligible == UNION {Eligible(gridValue, ownedBy, p) :
                                   p \in currentPlayer}
         IN  {NoCursor, OffGrid} \cup
             {c \in eligible : \A d \in eligible : Rank(c) <= Rank(d)}

\* --------------------------------------------------------------- unselected
\* Text and sprite of every unowned block the cursor does not touch are reset
ResetText(cursor_pos, collided) ==
    [c \in Cells |->
        IF cursor_pos # NoCursor /\ ownedBy[c] = Placeholder /\ c # collided
        THEN <<>> ELSE text[c]]

ResetSprite(cursor_pos, collided) ==
    [c \in Cells |->
        IF cursor_pos # NoCursor /\ ownedBy[c] = Placeholder /\ c # collided
        THEN "WHITE" ELSE sprite[c]]

\* faulty variant: owned blocks collide too
CollidedEntityAnyBlock(cursor_pos, ob) ==
    IF cursor_pos \in Cells THEN cursor_pos ELSE NoBlock

\* the unowned block whose box holds the cursor, if any
CollidedEntity(cursor_pos, ob) ==
    IF cursor_pos \in UnownedBlocks(ob) THEN cursor_pos ELSE NoBlock

\* faulty variant: the increment is missing
PendingValueNoIncrement(largest_neighbor_value) == largest_neighbor_value

\* the number shown on an eligible block
PendingValue(largest_neighbor_value) == largest_neighbor_value + 1

unselected(cursor_pos, just_pressed) ==
    /\ turnState = "Unselected"
    /\ ~panicked
    /\ LET collided_entity == CollidedEntity(cursor_pos, ownedBy)
           text1 == ResetText(cursor_pos, collided_entity)
           sprite1 == ResetSprite(cursor_pos, collided_entity)
           current_player == Single(currentPlayer, None)
       IN  IF collided_entity = NoBlock
           THEN /\ text' = text1
                /\ sprite' = sprite1
                /\ UNCHANGED <<adj_list, gridValue, ownedBy, score, currentPlayer,
                               selected, turnState, announcements, panicked>>
           ELSE IF current_player = None \/ collided_entity \notin DOMAIN adj_list
           THEN Panic
           ELSE LET largest_neighbor_value ==
                        largest_neighbor(collided_entity, gridValue, ownedBy,
                                         current_player)
                IN  IF largest_neighbor_value = None
                    THEN /\ text' = text1
                         /\ sprite' = sprite1
                         /\ UNCHANGED <<adj_list, gridValue, ownedBy, score,
                                        currentPlayer, selected, turnState,
                                        announcements, panicked>>
                    ELSE /\ sprite' = [sprite1 EXCEPT ![collided_entity] =
                                          SelectedColor(current_player)]
                         /\ text' = [text1 EXCEPT ![collided_entity] =
                                        to_string(PendingValue(largest_neighbor_value))]
                         /\ IF just_pressed
                            THEN /\ selected' = selected \cup {collided_entity}
                                 /\ turnState' = "Committed"
                            ELSE UNCHANGED <<selected, turnState>>
                         /\ UNCHANGED <<adj_list, gridValue, ownedBy, score,
                                        currentPlayer, announcements, panicked>>

\* ------------------------------------------------------ selection_committed
\* faulty variant: the score is overwritten
NewScoreOverwrite(old_score, grid_value) == grid_value

\* score.0 = max(score.0, grid_value)
NewScore(old_score, grid_value) == Max(old_score, grid_value)

\* faulty variant: the other players are scored
ScoredPlayersOthers(current_player) ==
    {entity \in Players : entity # current_player}

\* the entries of the Score query whose entity is the current player
ScoredPlayers(current_player) ==
    {entity \in Players : entity = current_player}

\* faulty variant: the marker stays on the block
RemoveSelectedForgotten(sel, grid_block_entity) == sel

\* commands.entity(grid_block_entity).remove::<Selected>()
RemoveSelected(sel, grid_block_entity) == sel \ {grid_block_entity}

\* faulty variant: the turn end is skipped
CommittedNextStateUnselected == "Unselected"

\* next_state.set(TurnState::TurnEnd)
CommittedNextState == "TurnEnd"

selection_committed ==
    /\ turnState = "Committed"
    /\ ~panicked
    /\ LET grid_block_entity == Single(selected, NoBlock)
           current_player == Single(currentPlayer, None)
       IN  IF grid_block_entity = NoBlock \/ current_player = None
           THEN Panic
           ELSE LET grid_value == from_str(text[grid_block_entity])
                IN  IF grid_value = None
                    THEN Panic
                    ELSE /\ gridValue' = [gridValue EXCEPT
                                            ![grid_block_entity] = grid_value]
                         /\ sprite' = [sprite EXCEPT ![grid_block_entity] =
                                          CommittedColor(current_player)]
                         /\ text' = [text EXCEPT ![grid_block_entity] =
                                        to_string(grid_value)]
                         /\ selected' = RemoveSelected(selected, grid_block_entity)
                         /\ ownedBy' = [ownedBy EXCEPT
                                          ![grid_block_entity] = current_player]
                         /\ score' = [entity \in Players |->
                                         IF entity \in ScoredPlayers(current_player)
                                         THEN NewScore(score[entity], grid_value)
                                         ELSE score[entity]]
                         /\ turnState' = CommittedNextState
                         /\ UNCHANGED <<adj_list, currentPlayer, announcements, panicked>>

\* ----------------------------------------------------------------- turn_end
\* faulty variant: both arms of the match give the current player
NextPlayerSame(current_player) == current_player

\* The other entry of the player list
NextPlayer(current_player) ==
    IF current_player = player_list[1] THEN player_list[2] ELSE player_list[1]

\* faulty variant: the count is compared with 1
GameIsOverOffByOne(ob) == Cardinality(UnownedBlocks(ob)) <= 1

\* unowned_block_query.iter().count() == 0
GameIsOver(ob) == Cardinality(UnownedBlocks(ob)) = 0

\* faulty variant: min_by_key
LosingPlayers(sc) == {p \in Players : \A q \in Players : sc[p] <= sc[q]}

\* max_by_key over the Score query: a player of greatest score (the iteration
\* order, hence the choice among equal scores, is the scheduler's)
WinningPlayers(sc) == {p \in Players : \A q \in Players : sc[q] <= sc[p]}

WinningPlayerNumber(winning_player) ==
    IF player_list[1] = winning_player THEN 1 ELSE 2

\* faulty variant: the marker is not removed
RemoveMarkerForgotten(marked, player) == marked

\* commands.entity(player).remove::<CurrentPlayer>()
RemoveMarker(marked, player) == marked \ {player}

\* the marker is removed from the current player and inserted on the entry
\* after it in the player list
PassMarker(current_player) ==
    {player_list[(i % Len(player_list)) + 1] :
        i \in {k \in 1 .. Len(player_list) : player_list[k] = current_player}}

turn_end ==
    /\ turnState = "TurnEnd"
    /\ ~panicked
    /\ \E met_missing_first \in BOOLEAN :
       LET current_player == Single(currentPlayer, None)
       IN  IF current_player = None
           THEN Panic
           ELSE IF GameIsOver(ownedBy)
           THEN /\ Len(announcements) < MaxAnnouncements
                /\ \E winning_player \in WinningPlayers(score) :
                      announcements' = Append(announcements,
                          <<WinningPlayerNumber(winning_player),
                            score[winning_player]>>)
                /\ UNCHANGED <<adj_list, gridValue, ownedBy, score, currentPlayer,
                               selected, text, sprite, turnState, panicked>>
           ELSE IF /\ MissingAdjacency(NextPlayer(current_player), ownedBy)
                   /\ ~(/\ next_player_has_moves(NextPlayer(current_player),
                                                 ownedBy)
                        /\ ~met_missing_first)
           THEN Panic
           ELSE IF next_player_has_moves(NextPlayer(current_player), ownedBy)
           THEN /\ currentPlayer' = RemoveMarker(currentPlayer, current_player)
                                       \cup PassMarker(current_player)
                /\ turnState' = "Unselected"
                /\ UNCHANGED <<adj_list, gridValue, ownedBy, score, selected, text,
                               sprite, announcements, panicked>>
           ELSE /\ turnState' = "Unselected"
                /\ UNCHANGED <<adj_list, gridValue, ownedBy, score, currentPlayer,
                               selected, text, sprite, announcements, panicked>>

Next ==
    \/ \E cursor_pos \in CursorPositions, just_pressed \in BOOLEAN :
          unselected(cursor_pos, just_pressed)
    \/ selection_committed
    \/ turn_end

Spec == Init /\ [][Next]_vars

\* the click branch of unselected: an unowned block with an owned
\* neighbour of the player to move becomes Selected and the next state is
\* Committed
confirm_eligible ==
    /\ turnState = "Unselected"
    /\ ~panicked
    /\ turnState' = "Committed"
    /\ \E collided_entity \in UnownedBlocks(ownedBy) :
       \E current_player \in currentPlayer :
          /\ largest_neighbor(collided_entity, gridValue, ownedBy,
                              current_player) # None
          /\ selected' = selected \cup {collided_entity}

\* The schedule runs the system of the current state in every frame, and
\* the player to move eventually clicks an eligible block when there is one.
FairSpec ==
    /\ Spec
    /\ WF_<<turnState, selected>>(confirm_eligible)
    /\ WF_vars(selection_committed)
    /\ WF_vars(turn_end)

\* ======================================================================
\* Properties.  Adjacency, ownership and eligibility are restated here from
\* the rules of the game, independently of the operators above.
\* ======================================================================
Abs(n) == IF n < 0 THEN -n ELSE n

\* Moore neighbourhood: Chebyshev distance exactly 1
Adjacent(a, b) == a # b /\ Abs(a[1] - b[1]) <= 1 /\ Abs(a[2] - b[2]) <= 1

Unowned == {c \in Cells : ownedBy[c] = Placeholder}

\* values of the neighbours of c that p owns
OwnedNeighbourValues(c, p) ==
    {gridValue[d] : d \in {e \in Cells : Adjacent(c, e) /\ ownedBy[e] = p}}

\* p owns a cell that has an unowned neighbour
HasFrontier(p) ==
    \E d \in Cells : ownedBy[d] = p /\ \E c \in Unowned : Adjacent(c, d)

Other(p) == CHOOSE q \in Players : q # p

BoardAndScoresUnchanged ==
    /\ gridValue' = gridValue
    /\ ownedBy' = ownedBy
    /\ score' = score

\* ---------------------------------------------------------------------- C1
\* C1: a frame of turn_end takes the game-over branch (spawns the winner
\* text) exactly when no unowned cell remains, and once it has been taken no
\* cell value, cell owner, score or current-player marker changes any more
\* and the turn state stays TurnEnd.
C1_TerminalIffBoardFull ==
    [][ /\ (Len(announcements') > Len(announcements))
            <=> (turnState = "TurnEnd" /\ Unowned = {})
        /\ (Unowned = {} => turnState = "TurnEnd")
        /\ (announcements # <<>> =>
               /\ BoardAndScoresUnchanged
               /\ currentPlayer' = currentPlayer
               /\ turnState = "TurnEnd"
               /\ turnState' = "TurnEnd") ]_vars

\* the game-over branch has been taken in two successive frames
C1_Witness ==
    /\ Unowned = {}
    /\ Len(announcements) >= 2
    /\ turnState = "TurnEnd"

\* ---------------------------------------------------------------------- C2
\* C2: over a complete game exactly one game-over announcement is emitted:
\* at most one winner text is ever spawned.
C2_SingleAnnouncement == Len(announcements) <= 1

\* ---------------------------------------------------------------------- C3
\* C3: a block becomes selected only if the current player owns one of its
\* neighbours, and the frame that commits a block c for the current player p
\* gives it the value (largest value among the neighbours p owns) + 1 and
\* the owner p; a block none of whose neighbours p owns is never committed.
C3_MoveValue ==
    [][ \A c \in Cells :
          /\ (c \notin selected /\ c \in selected') =>
                \E p \in currentPlayer :
                    /\ currentPlayer = {p}
                    /\ ownedBy[c] = Placeholder
                    /\ OwnedNeighbourValues(c, p) # {}
          /\ (ownedBy[c] = Placeholder /\ ownedBy'[c] # Placeholder) =>
                \E p \in currentPlayer :
                    /\ currentPlayer = {p}
                    /\ selected = {c}
                    /\ OwnedNeighbourValues(c, p) # {}
                    /\ gridValue'[c] = SetMax(OwnedNeighbourValues(c, p)) + 1
                    /\ ownedBy'[c] = p ]_vars

\* a block was committed on top of an earlier committed block, with a value
\* of two digits
C3_Witness ==
    \E c \in Cells :
        /\ c[1] # c[2]
        /\ ownedBy[c] # Placeholder
        /\ gridValue[c] >= 10
        /\ gridValue[c] = SetMax(OwnedNeighbourValues(c, ownedBy[c])) + 1

\* ---------------------------------------------------------------------- C4
\* C4: an owned block keeps its owner and its value in every later state and
\* is never marked Selected.
C4_ClaimsPermanent ==
    [][ \A c \in Cells : ownedBy[c] # Placeholder =>
          /\ ownedBy'[c] = ownedBy[c]
          /\ gridValue'[c] = gridValue[c]
          /\ c \notin selected
          /\ c \notin selected' ]_vars

\* two blocks have been committed, so the first outlived a later commit
C4_Witness ==
    /\ NumCommitted(ownedBy) >= 2
    /\ turnState = "Unselected"

\* ---------------------------------------------------------------------- C5
\* C5: in every state each player's score is the largest value among the
\* blocks that player owns, and no step lowers a score.
ScoreIsMax ==
    \A p \in Players :
        LET owned == {gridValue[c] : c \in {d \in Cells : ownedBy[d] = p}}
        IN  owned # {} /\ score[p] = SetMax(owned)

C5_ScoreIsMaxAndMonotone ==
    /\ []ScoreIsMax
    /\ [][\A p \in Players : score'[p] >= score[p]]_vars

\* a player committed a block of lower value than the score already reached
C5_Witness ==
    \E p \in Players : \E c \in Cells :
        /\ c[1] # c[2]
        /\ ownedBy[c] = p
        /\ gridValue[c] < score[p]
        /\ score[p] > InitScore

\* ---------------------------------------------------------------------- C6
\* C6: in Unselected, a frame with the mouse button just pressed while the
\* cursor is over no unowned block, or over a block none of whose neighbours
\* the current player owns, leaves the board, the scores, the current
\* player and the selection unchanged and stays in Unselected.  (Stated
\* by contraposition: a step that changes any of them is not such a frame.)
NoEligibleHover(cursor_pos) ==
    \/ cursor_pos \notin Unowned
    \/ \A p \in currentPlayer : OwnedNeighbourValues(cursor_pos, p) = {}

C6_IneligibleConfirmIgnored ==
    [][ ~(/\ BoardAndScoresUnchanged
          /\ currentPlayer' = currentPlayer
          /\ selected' = selected
          /\ turnState' = "Unselected") =>
            \A cursor_pos \in {NoCursor, OffGrid} \cup Cells :
                ~(NoEligibleHover(cursor_pos) /\ unselected(cursor_pos, TRUE))
      ]_vars

\* after a commit, the current player faces an unowned block with no owned
\* neighbour as well as an eligible one, and a confirm on the former is a
\* frame that leaves the state as it is
C6_Witness ==
    /\ turnState = "Unselected"
    /\ NumCommitted(ownedBy) >= 1
    /\ \E p \in currentPlayer : \E c, d \in Unowned :
          /\ OwnedNeighbourValues(c, p) = {}
          /\ OwnedNeighbourValues(d, p) # {}
          /\ text[d] # <<>>
          /\ ENABLED (unselected(c, TRUE) /\ selected' = {})

\* ---------------------------------------------------------------------- C7
\* C7: a TurnEnd frame with an unowned block left hands the marker to the
\* other player when that player owns a block with an unowned neighbour and
\* leaves it where it is otherwise; either way the next state is Unselected
\* and board and scores are unchanged.
C7_HandOffOrPass ==
    [][ (turnState = "TurnEnd" /\ Unowned # {}) =>
          \E p \in currentPlayer :
              /\ currentPlayer = {p}
              /\ currentPlayer' = IF HasFrontier(Other(p))
                                  THEN {Other(p)} ELSE {p}
              /\ turnState' = "Unselected"
              /\ BoardAndScoresUnchanged ]_vars

\* a turn end at which the other player has no move: the implicit pass
C7_Witness ==
    /\ turnState = "TurnEnd"
    /\ Unowned # {}
    /\ \E p \in currentPlayer : ~HasFrontier(Other(p))

\* ---------------------------------------------------------------------- C8
\* C8: when the final scores differ, every announcement names the player of
\* strictly higher score together with that score, which is the largest
\* value on the board.
C8_WinnerHasHigherScore ==
    \A k \in 1 .. Len(announcements) :
        (\E p, q \in Players : score[p] # score[q]) =>
            LET w == announcements[k][1]
            IN  /\ w \in 1 .. NUM_PLAYERS
                /\ \A q \in Players \ {player_list[w]} :
                      score[player_list[w]] > score[q]
                /\ announcements[k][2] = score[player_list[w]]
                /\ announcements[k][2] = SetMax({gridValue[c] : c \in Cells})

\* a finished game with different scores, announced
C8_Witness ==
    /\ announcements # <<>>
    /\ \E p, q \in Players : score[p] # score[q]

\* ---------------------------------------------------------------------- C9
\* C9: the state after setup (N = 6) has player 1 on (0,0)=1, (1,1)=2,
\* (2,2)=3, player 2 on (3,3)=3, (4,4)=2, (5,5)=1, every off-diagonal block
\* unowned and without value, and both scores 3.
C9_InitialSeeding ==
    Init =>
        /\ gridValue[<<0, 0>>] = 1 /\ ownedBy[<<0, 0>>] = 1
        /\ gridValue[<<1, 1>>] = 2 /\ ownedBy[<<1, 1>>] = 1
        /\ gridValue[<<2, 2>>] = 3 /\ ownedBy[<<2, 2>>] = 1
        /\ gridValue[<<3, 3>>] = 3 /\ ownedBy[<<3, 3>>] = 2
        /\ gridValue[<<4, 4>>] = 2 /\ ownedBy[<<4, 4>>] = 2
        /\ gridValue[<<5, 5>>] = 1 /\ ownedBy[<<5, 5>>] = 2
        /\ \A c \in Cells : c[1] # c[2] =>
              gridValue[c] = None /\ ownedBy[c] = Placeholder
        /\ score[1] = 3
        /\ score[2] = 3

\* the state after setup, before any frame has changed it
C9_Witness ==
    /\ Cardinality(Unowned) = 30
    /\ turnState = "Unselected"
    /\ \A c \in Unowned : text[c] = <<>>
    /\ score = [p \in Players |-> 3]

\* --------------------------------------------------------------------- C10
\* C10: the adjacency relation built by setup_board is symmetric.
C10_AdjacencySymmetric ==
    \A a, b \in Cells :
        (a \in DOMAIN adj_list /\ Contains(adj_list[a], b))
            <=> (b \in DOMAIN adj_list /\ Contains(adj_list[b], a))

\* a block was committed next to a block of its owner, each being in the
\* neighbour list of the other
C10_Witness ==
    \E a, b \in Cells :
        /\ a[1] # a[2]
        /\ ownedBy[a] # Placeholder
        /\ ownedBy[b] = ownedBy[a]
        /\ Contains(adj_list[a], b)
        /\ Contains(adj_list[b], a)

\* --------------------------------------------------------------------- C11
\* C11: every block of the grid has an entry in the adjacency map, and its
\* neighbour list holds exactly the in-grid blocks at Chebyshev distance 1,
\* each once and never the block itself: 3 for a corner, 5 for another edge
\* block, 8 for an interior block.
OnEdge(k) == k = 0 \/ k = GRID_LENGTH - 1

ExpectedNeighbourCount(c) ==
    IF OnEdge(c[1]) /\ OnEdge(c[2]) THEN 3
    ELSE IF OnEdge(c[1]) \/ OnEdge(c[2]) THEN 5
    ELSE 8

C11_MooreNeighbourhood ==
    /\ DOMAIN adj_list = Cells
    /\ \A c \in Cells :
          /\ \A d \in Cells : Contains(adj_list[c], d) <=> Adjacent(c, d)
          /\ \A k \in 1 .. Len(adj_list[c]) : adj_list[c][k] \in Cells
          /\ \A j, k \in 1 .. Len(adj_list[c]) :
                adj_list[c][j] = adj_list[c][k] => j = k
          /\ Len(adj_list[c]) = ExpectedNeighbourCount(c)

\* a corner, an edge and an interior block have been committed, with 3, 5
\* and 8 neighbours
C11_Witness ==
    \E a, b, c \in Cells :
        /\ ownedBy[a] # Placeholder /\ Len(adj_list[a]) = 3
        /\ ownedBy[b] # Placeholder /\ Len(adj_list[b]) = 5
        /\ ownedBy[c] # Placeholder /\ Len(adj_list[c]) = 8 /\ c[1] # c[2]

\* --------------------------------------------------------------------- C12
\* C12: with player 1 still holding only its seeded blocks (0,0)=1, (1,1)=2,
\* (2,2)=3 and the turn being player 1's, block (0,1) is eligible with
\* largest neighbour 2: hovering it shows 3, a click on it selects it, and
\* the commit of that selection sets value(0,1) = 3 and owner(0,1) =
\* player 1.
Player1HoldsOnlySeeds == \A c \in Cells : ownedBy[c] = 1 => c[1] = c[2]

C13_OwnedHasValue ==
    \A c \in Cells : ownedBy[c] # Placeholder =>
        /\ gridValue[c] # None
        /\ gridValue[c] \in Nat
        /\ gridValue[c] >= 1

\* the full board: thirty committed blocks, each with its value
C13_Witness ==
    /\ Unowned = {}
    /\ \A c \in Cells : gridValue[c] >= 1
    /\ \E c \in Cells : gridValue[c] >= 10

\* --------------------------------------------------------------------- C14
\* C14: a Committed frame changes exactly one block, the selected one, from
\* unowned and unvalued to owned by the current player with the pending
\* value; it changes at most the current player's score; every other block,
\* the other player's score and the current player stay as they are; and
\* the next state is TurnEnd.
C14_CommitFrame ==
    [][ turnState = "Committed" =>
          \E c \in Cells, p \in Players :
              /\ selected = {c}
              /\ currentPlayer = {p}
              /\ ownedBy[c] = Placeholder
              /\ gridValue[c] = None
              /\ ownedBy'[c] = p
              /\ gridValue'[c] = SetMax(OwnedNeighbourValues(c, p)) + 1
              /\ \A d \in Cells \ {c} :
                    ownedBy'[d] = ownedBy[d] /\ gridValue'[d] = gridValue[d]
              /\ \A q \in Players \ {p} : score'[q] = score[q]
              /\ score'[p] \in {score[p], gridValue'[c]}
              /\ currentPlayer' = currentPlayer
              /\ turnState' = "TurnEnd" ]_vars

\* just after a commit that raised the current player's score while the
\* other player's score is still the initial one
C14_Witness ==
    /\ turnState = "TurnEnd"
    /\ Unowned # {}
    /\ \E p \in currentPlayer :
          /\ score[p] > InitScore
          /\ \E c \in Cells : ownedBy[c] = p /\ gridValue[c] = score[p]
          /\ score[Other(p)] = InitScore

\* --------------------------------------------------------------------- C15
\* C15: the turn state changes only along Unselected -> Committed ->
\* TurnEnd -> Unselected; Unselected is left only by a frame that selects a
\* block eligible for the current player; and the number of owned blocks
\* grows by one in the Committed frame and in no other, hence by exactly one
\* per cycle.
NumOwned == Cardinality({c \in Cells : ownedBy[c] # Placeholder})

C16_SingleSelection ==
    /\ turnState = "Committed" =>
          /\ Cardinality(selected) = 1
          /\ \A c \in selected : c \in Cells /\ ownedBy[c] = Placeholder
    /\ turnState \in {"Unselected", "TurnEnd"} => selected = {}
    /\ ~panicked

\* a pending selection in Committed, after an earlier selection was
\* committed and cleared
C16_Witness ==
    /\ turnState = "Committed"
    /\ Cardinality(selected) = 1
    /\ NumOwned > GRID_LENGTH

\* --------------------------------------------------------------------- C17
\* C17: whenever the turn state is Unselected and an unowned block remains,
\* the current player has an eligible block: an unowned block with a
\* neighbour the current player owns.
C17_NoStuckTurn ==
    (turnState = "Unselected" /\ Unowned # {}) =>
        \E p \in currentPlayer : \E c \in Unowned :
            OwnedNeighbourValues(c, p) # {}

\* a turn kept after an implicit pass: the other player has no block with
\* an unowned neighbour, and the current player can move
C17_Witness ==
    /\ turnState = "Unselected"
    /\ Unowned # {}
    /\ \E p \in currentPlayer :
          /\ ~HasFrontier(Other(p))
          /\ \E c \in Unowned : OwnedNeighbourValues(c, p) # {}

\* --------------------------------------------------------------------- C18
\* C18: if the player to move eventually confirms an eligible block whenever
\* there is one, every game reaches the game-over branch, and it does so
\* with exactly N*N - N committed blocks (30 for N = 6), whatever blocks
\* were chosen and however many turns were passed.
C18_GameEnds ==
    /\ <>(announcements # <<>>)
    /\ [](announcements # <<>> =>
            NumOwned - GRID_LENGTH = GRID_LENGTH * GRID_LENGTH - GRID_LENGTH)

\* the frame after the thirtieth commit: the first announcement
C18_Witness ==
    /\ Len(announcements) = 1
    /\ NumOwned - GRID_LENGTH = 30

\* --------------------------------------------------------------------- C19
\* C19: on every reachable board the two legality tests agree for each
\* player p: next_player_has_moves(p) holds exactly when largest_neighbor
\* returns Some for some unowned block and p.
C19_LegalityTestsAgree ==
    \A p \in Players :
        next_player_has_moves(p, ownedBy)
            <=> \E c \in Cells :
                    /\ ownedBy[c] = Placeholder
                    /\ c \in DOMAIN adj_list
                    /\ largest_neighbor(c, gridValue, ownedBy, p) # None

\* a board on which the tests say yes for one player and no for the other
C19_Witness ==
    \E p \in Players :
        /\ next_player_has_moves(p, ownedBy)
        /\ \E c \in Unowned : largest_neighbor(c, gridValue, ownedBy, p) # None
        /\ ~next_player_has_moves(Other(p), ownedBy)
        /\ \A c \in Unowned :
              largest_neighbor(c, gridValue, ownedBy, Other(p)) = None

\* --------------------------------------------------------------------- C20
\* C20: in every state exactly one of the two players carries the
\* CurrentPlayer marker, and the marker moves only in a TurnEnd frame and
\* only to the other player.
ExactlyOneCurrentPlayer ==
    /\ currentPlayer \subseteq Players
    /\ Cardinality(Players) = 2
    /\ Cardinality(currentPlayer) = 1

C20_SingleCurrentPlayer ==
    /\ []ExactlyOneCurrentPlayer
    /\ [][ currentPlayer' # currentPlayer =>
             /\ turnState = "TurnEnd"
             /\ \E p \in Players :
                   currentPlayer = {p} /\ currentPlayer' = {Other(p)} ]_vars

\* the marker went from player 2 to player 1 and came back
C20_Witness ==
    /\ currentPlayer = {2}
    /\ turnState = "Unselected"
    /\ NumOwned = GRID_LENGTH + 2
    /\ \E c \in Cells : c[1] # c[2] /\ ownedBy[c] = 1

\* ------------------------------------------------------------------- C21
PlayerTwoSeeds == {<<3, 3>>, <<4, 4>>, <<5, 5>>}

NobodyHasMoved == NumOwned = 6

\* C21: in the initial state the current player is player 2; as long as
\* only the six seeds are owned the current player stays player 2, and the
\* first block that changes owner goes to player 2 and touches one of
\* (3,3), (4,4), (5,5), so player 1 commits nothing before player 2 has moved.
C21_PlayerTwoMovesFirst ==
    /\ currentPlayer = {2}
    /\ [][ NobodyHasMoved =>
             /\ currentPlayer = {2}
             /\ \A c \in Cells :
                   ownedBy'[c] # ownedBy[c] =>
                      /\ ownedBy'[c] = 2
                      /\ \E s \in PlayerTwoSeeds : Adjacent(c, s) ]_vars

\* the first move of the game has been committed
C21_Witness ==
    /\ NumOwned = 7
    /\ \E c \in Cells : c[1] # c[2] /\ ownedBy[c] = 2 /\ gridValue[c] # None

====
